---- MODULE Spec2Model ----
(***************************************************************************)
(* Model of dataCleaningExample.py: the numeric column normalizer          *)
(* convert_columns_to_int, the categorical column normalizer               *)
(* clean_categorical_columns and the module-level driver script.           *)
(*                                                                         *)
(* A table (pandas DataFrame) is a record                                  *)
(*   [cols  : the set of column names,                                     *)
(*    dtype : column name -> "object" | "int64" | "float64" | "category",  *)
(*    rows  : sequence of row groups [idx, n, c]]                          *)
(* where a row group stands for n consecutive identical rows whose index   *)
(* labels are idx .. idx+n-1 and whose cells are c[col].                   *)
(* A cell is a record [t, n, f, s]:                                        *)
(*   t = "nan"   missing (None / NaN)                                      *)
(*   t = "int"   the integer n                                             *)
(*   t = "float" the finite float n + f/10 (n is the part astype(int)      *)
(*               keeps: truncation toward zero)                            *)
(*   t = "inf"   the float infinity                                        *)
(*   t = "str"   the string s, a sequence of one-character strings         *)
(***************************************************************************)
EXTENDS Integers, Sequences, FiniteSets, TLC

VARIABLES
    fn,              \* the code that runs: a normalizer called on its own, or "<module>"
    pc,              \* position: "call", "returned", "again", "returned_again", "raised",
                     \* or the statement the driver is at
    df,              \* the table being transformed (parameter df of both normalizers)
    columns,         \* the column list argument
    i,               \* position of the for loop in the column list
    valid_ranges,    \* column name -> <<min, max>>
    invalid_values,  \* column name -> sequence of log entries (numeric normalizer)
    cleaning_log,    \* column name -> sequence of log entries (categorical normalizer)
    performed,       \* column name -> the actions executed on the column, in order
    orig,            \* the table as it was passed in
    first,           \* the table returned by the first of two successive calls
    defined,         \* names bound in the module namespace (driver)
    printed          \* the driver has printed its results

vars == <<fn, pc, df, columns, i, valid_ranges, invalid_values, cleaning_log,
          performed, orig, first, defined, printed>>

-----------------------------------------------------------------------------
(* Bounds of the model *)

MaxRows == 3          \* rows of an input table of the numeric normalizer
MaxGroups == 3        \* row groups of an input table of the categorical normalizer
BigN == 200           \* size of a large row group

-----------------------------------------------------------------------------
(* Generic helpers *)

Range(s) == {s[k] : k \in DOMAIN s}

RECURSIVE SumSeq(_)
SumSeq(s) == IF s = <<>> THEN 0 ELSE Head(s) + SumSeq(Tail(s))

RECURSIVE Concat(_)
Concat(ss) == IF ss = <<>> THEN <<>> ELSE Head(ss) \o Concat(Tail(ss))

EmptyMap == [x \in {} |-> <<>>]

\* d[k] = v in a Python dict (insert or overwrite)
DictSet(d, k, v) == [x \in (DOMAIN d) \cup {k} |-> IF x = k THEN v ELSE d[x]]

\* d.get(k, [])
DictGet(d, k) == IF k \in DOMAIN d THEN d[k] ELSE <<>>

-----------------------------------------------------------------------------
(* Cells *)

NaN == [t |-> "nan", n |-> 0, f |-> 0, s |-> <<>>]
IntCell(v) == [t |-> "int", n |-> v, f |-> 0, s |-> <<>>]
FloatCell(v, tenths) == [t |-> "float", n |-> v, f |-> tenths, s |-> <<>>]
Inf == [t |-> "inf", n |-> 0, f |-> 0, s |-> <<>>]
StrCell(chars) == [t |-> "str", n |-> 0, f |-> 0, s |-> chars]

isna(c) == c.t = "nan"

-----------------------------------------------------------------------------
(* Tables *)

EmptyTable == [cols |-> {}, dtype |-> [x \in {} |-> "object"], rows |-> <<>>]

\* len(df)
len(d) == SumSeq([k \in DOMAIN d.rows |-> d.rows[k].n])

\* df[col] = values, one cell per row group, with the resulting dtype
SetColumn(d, col, cells, dt) ==
    [d EXCEPT !.rows = [k \in DOMAIN d.rows |-> [d.rows[k] EXCEPT !.c[col] = cells[k]]],
              !.dtype[col] = dt]

\* df[col], one cell per row group
Column(d, col) == [k \in DOMAIN d.rows |-> d.rows[k].c[col]]

\* the index labels of the rows of group g
Labels(g) == [k \in 1..g.n |-> g.idx + k - 1]

\* the cell of column col in the row labelled idx
CellAt(d, col, idx) ==
    LET k == CHOOSE k \in DOMAIN d.rows :
                 d.rows[k].idx <= idx /\ idx < d.rows[k].idx + d.rows[k].n
    IN d.rows[k].c[col]

HasLabel(d, idx) ==
    \E k \in DOMAIN d.rows : d.rows[k].idx <= idx /\ idx < d.rows[k].idx + d.rows[k].n

-----------------------------------------------------------------------------
(* Numeric column normalizer: convert_columns_to_int *)

default_value == -1

Digits == <<"0", "1", "2", "3", "4", "5", "6", "7", "8", "9">>

IsDigit(ch) == \E k \in DOMAIN Digits : Digits[k] = ch

DigitVal(ch) == (CHOOSE k \in DOMAIN Digits : Digits[k] = ch) - 1

RECURSIVE ParseDigits(_, _)
ParseDigits(chars, acc) ==
    IF chars = <<>> THEN acc
    ELSE ParseDigits(Tail(chars), 10 * acc + DigitVal(Head(chars)))

\* pd.to_numeric(..., errors='coerce') on one value: numbers stay, a string of
\* decimal digits is parsed, the string "inf" is the float infinity, any other
\* string and a missing value are NaN.
to_numeric(c) ==
    CASE c.t = "str" /\ c.s # <<>> /\ (\A k \in DOMAIN c.s : IsDigit(c.s[k]))
             -> IntCell(ParseDigits(c.s, 0))
      [] c.t = "str" /\ c.s = <<"i", "n", "f">> -> Inf
      [] c.t = "str" -> NaN
      [] OTHER -> c

\* an integer stored in a float64 column
AsFloat(c) == IF c.t = "int" THEN FloatCell(c.n, 0) ELSE c

\* pd.to_numeric on a column: the result is int64 when every value is an
\* integer and float64 otherwise
ToNumericColumn(cells) ==
    LET conv == [k \in DOMAIN cells |-> to_numeric(cells[k])]
    IN IF \A k \in DOMAIN conv : conv[k].t = "int"
       THEN conv
       ELSE [k \in DOMAIN conv |-> AsFloat(conv[k])]

NumDtype(cells) == IF \A k \in DOMAIN cells : cells[k].t = "int" THEN "int64" ELSE "float64"

\* a log entry (idx, original value) and the handler's entry ("error", str(e))
RowEntry(idx, val) == [k |-> "row", idx |-> idx, val |-> val]
ErrorEntry(msg) == [k |-> "error", idx |-> 0, val |-> StrCell(<<msg>>)]

\* InvalidEntries with the position of the row in place of its index label
InvalidEntries_positional(d, col, numeric) ==
    Concat([k \in DOMAIN d.rows |->
              IF isna(numeric[k])
              THEN [j \in 1..d.rows[k].n |-> RowEntry(k - 1, d.rows[k].c[col])]
              ELSE <<>>])

\* [(idx, original_values[idx]) for idx in invalid_indices]
InvalidEntries(d, col, numeric) ==
    Concat([k \in DOMAIN d.rows |->
              IF isna(numeric[k])
              THEN [j \in 1..d.rows[k].n |-> RowEntry(Labels(d.rows[k])[j], d.rows[k].c[col])]
              ELSE <<>>])

\* Series.fillna(default_value) on the float64 column
fillna(cells, v) == [k \in DOMAIN cells |-> IF isna(cells[k]) THEN FloatCell(v, 0) ELSE cells[k]]

\* Series.astype(int) raises on a non-finite value
AstypeIntRaises(cells) == \E k \in DOMAIN cells : cells[k].t \in {"inf", "nan"}

\* Series.astype(int): truncation toward zero
AstypeInt(cells) == [k \in DOMAIN cells |-> IntCell(cells[k].n)]

\* Series.between(min_val, max_val) on one integer
between(c, rng) == rng[1] <= c.n /\ c.n <= rng[2]

\* df.loc[~df[col].between(min_val, max_val), col] = default_value
ClampColumn(cells, rng) ==
    [k \in DOMAIN cells |-> IF between(cells[k], rng) THEN cells[k] ELSE IntCell(default_value)]

\* IntHandler with the exception raised again after it is logged
IntHandler_reraise(d, inv, col) ==
    [df |-> d,
     log |-> DictSet(inv, col, DictGet(inv, col) \o
                 <<ErrorEntry("Cannot convert non-finite values (NA or inf) to integer")>>),
     exc |-> TRUE]

\* lines 118-120: the except clause; exc says whether the exception leaves the call
IntHandler(d, inv, col) ==
    [df |-> d,
     log |-> DictSet(inv, col, DictGet(inv, col) \o
                 <<ErrorEntry("Cannot convert non-finite values (NA or inf) to integer")>>),
     exc |-> FALSE]

\* lines 89-120: the body of the loop for one column present in the table
ConvertColumn(d, inv, col, vr) ==
    LET original_values == Column(d, col)
        numeric == ToNumericColumn(original_values)
        d1 == SetColumn(d, col, numeric, NumDtype(numeric))
        hasna == \E k \in DOMAIN numeric : isna(numeric[k])
        inv1 == IF hasna THEN DictSet(inv, col, InvalidEntries(d, col, numeric)) ELSE inv
        filled == IF hasna THEN fillna(numeric, default_value) ELSE numeric
        d2 == SetColumn(d1, col, filled, NumDtype(numeric))
    IN IF AstypeIntRaises(filled)
       THEN IntHandler(d2, inv1, col)
       ELSE LET ints == AstypeInt(filled)
                d3 == SetColumn(d2, col, ints, "int64")
            IN IF col \in DOMAIN vr
               THEN [df |-> SetColumn(d3, col, ClampColumn(ints, vr[col]), "int64"),
                     log |-> inv1, exc |-> FALSE]
               ELSE [df |-> d3, log |-> inv1, exc |-> FALSE]

\* the driver's arguments (lines 31-35)
col_to_int == <<"year", "odometer">>
DriverRanges == [x \in {"year", "odometer"} |->
                    IF x = "year" THEN <<1900, 2026>> ELSE <<0, 999999>>]

\* the whole call, column by column (lines 81-122)
RECURSIVE ConvertFrom(_, _, _, _, _)
ConvertFrom(d, inv, cols, k, vr) ==
    IF k > Len(cols) THEN [df |-> d, log |-> inv]
    ELSE IF cols[k] \notin d.cols THEN ConvertFrom(d, inv, cols, k + 1, vr)
    ELSE LET r == ConvertColumn(d, inv, cols[k], vr)
         IN ConvertFrom(r.df, r.log, cols, k + 1, vr)

convert_columns_to_int(d, cols, vr) == ConvertFrom(d, EmptyMap, cols, 1, vr)


-----------------------------------------------------------------------------
(* Specification of a call of convert_columns_to_int *)

Oops == StrCell(<<"o", "o", "p", "s">>)

YearCells == {IntCell(1995), IntCell(2030), FloatCell(2026, 5), Oops,
              StrCell(<<"2", "0", "1", "0">>), NaN, Inf}
OdometerCells == {IntCell(5), Inf}

IntCells(col) == IF col = "year" THEN YearCells ELSE OdometerCells

\* a table of m single rows; the index labels are 0, 1, 2, ... or, as after a
\* dropna, 0, 2, 4, ...
IntTable(cs, m, stride, cc) ==
    [cols |-> cs,
     dtype |-> [x \in cs |-> "object"],
     rows |-> [k \in 1..m |-> [idx |-> (k - 1) * stride, n |-> 1,
                                c |-> [x \in cs |-> cc[x][k]]]]]

IntInit ==
    /\ fn = "convert_columns_to_int"
    /\ pc = "call"
    /\ \E cs \in SUBSET {"year", "odometer"}, m \in 0..MaxRows, stride \in {1, 2} :
         \E yc \in [1..m -> YearCells], oc \in [1..m -> OdometerCells] :
            /\ cs = {} => m = 0
            /\ df = IntTable(cs, m, stride, [x \in cs |-> IF x = "year" THEN yc ELSE oc])
    /\ orig = df
    /\ columns = col_to_int
    /\ valid_ranges \in {DriverRanges, [x \in {"year"} |-> DriverRanges[x]]}
    /\ i = 1
    /\ invalid_values = EmptyMap
    /\ cleaning_log = EmptyMap
    /\ performed = EmptyMap
    /\ first = EmptyTable
    /\ defined = {}
    /\ printed = FALSE

\* lines 84-87: a column that is not in the table is skipped with a warning
IntSkip ==
    /\ fn = "convert_columns_to_int"
    /\ pc = "call"
    /\ i <= Len(columns)
    /\ columns[i] \notin df.cols
    /\ i' = i + 1
    /\ UNCHANGED <<fn, pc, df, columns, valid_ranges, invalid_values, cleaning_log,
                   performed, orig, first, defined, printed>>

\* lines 89-120: one iteration of the loop, the except clause included
IntBody ==
    /\ fn = "convert_columns_to_int"
    /\ pc = "call"
    /\ i <= Len(columns)
    /\ columns[i] \in df.cols
    /\ LET r == ConvertColumn(df, invalid_values, columns[i], valid_ranges)
       IN /\ df' = r.df
          /\ invalid_values' = r.log
          /\ IF r.exc THEN pc' = "raised" /\ i' = i
                      ELSE pc' = pc /\ i' = i + 1
    /\ UNCHANGED <<fn, columns, valid_ranges, cleaning_log, performed, orig, first,
                   defined, printed>>

\* line 122
IntReturn ==
    /\ fn = "convert_columns_to_int"
    /\ pc = "call"
    /\ i > Len(columns)
    /\ pc' = "returned"
    /\ UNCHANGED <<fn, df, columns, i, valid_ranges, invalid_values, cleaning_log,
                   performed, orig, first, defined, printed>>

IntNext == IntSkip \/ IntBody \/ IntReturn

SpecInt == IntInit /\ [][IntNext]_vars


-----------------------------------------------------------------------------
(* Properties of convert_columns_to_int *)

IntReturned == fn = "convert_columns_to_int" /\ pc = "returned"

\* the columns of the list that are in the table
Processed == Range(columns) \cap df.cols

Sentinels == {IntCell(default_value), FloatCell(default_value, 0)}

\* C1: after convert_columns_to_int returns, every value of a listed column that
\* has a declared range is an integer inside the range or the sentinel.
C1_RangedColumnsInRange ==
    IntReturned =>
        \A col \in Processed \cap DOMAIN valid_ranges :
            \A k \in DOMAIN df.rows :
                LET c == df.rows[k].c[col]
                IN /\ c.t = "int"
                   /\ between(c, valid_ranges[col]) \/ c.n = default_value

\* C2: every value that convert_columns_to_int replaced with the sentinel is in
\* the column's invalid-value log as (row index, original value).
C2_ReplacedValuesLogged ==
    IntReturned =>
        \A col \in Processed :
            \A k \in DOMAIN df.rows :
                (df.rows[k].c[col] \in Sentinels /\ orig.rows[k].c[col] \notin Sentinels)
                    => RowEntry(df.rows[k].idx, orig.rows[k].c[col])
                           \in Range(DictGet(invalid_values, col))

\* the value failed numeric coercion, or is outside the range declared for col
FailedOrOutOfRange(col, val) ==
    \/ isna(to_numeric(val))
    \/ /\ col \in DOMAIN valid_ranges
       /\ to_numeric(val).t \in {"int", "float"}
       /\ ~between(to_numeric(val), valid_ranges[col])

\* the entry is (row index, original value) of a row whose value failed
\* coercion or was out of range
EntryOfInvalidRow(col, e) ==
    /\ e.k = "row"
    /\ HasLabel(orig, e.idx)
    /\ CellAt(orig, col, e.idx) = e.val
    /\ FailedOrOutOfRange(col, e.val)

-----------------------------------------------------------------------------
(* Strings: str.lower, str.strip, str.title *)

Lowercase == <<"a", "b", "c", "d", "e", "f", "g", "h", "i", "j", "k", "l", "m",
               "n", "o", "p", "q", "r", "s", "t", "u", "v", "w", "x", "y", "z">>
Uppercase == <<"A", "B", "C", "D", "E", "F", "G", "H", "I", "J", "K", "L", "M",
               "N", "O", "P", "Q", "R", "S", "T", "U", "V", "W", "X", "Y", "Z">>

IsLower(ch) == \E k \in DOMAIN Lowercase : Lowercase[k] = ch
IsUpper(ch) == \E k \in DOMAIN Uppercase : Uppercase[k] = ch
IsCased(ch) == IsLower(ch) \/ IsUpper(ch)

ToLower(ch) == IF IsUpper(ch) THEN Lowercase[CHOOSE k \in DOMAIN Uppercase : Uppercase[k] = ch]
               ELSE ch
ToUpper(ch) == IF IsLower(ch) THEN Uppercase[CHOOSE k \in DOMAIN Lowercase : Lowercase[k] = ch]
               ELSE ch

\* str.lower()
lower(chars) == [k \in DOMAIN chars |-> ToLower(chars[k])]

\* str.strip(): leading and trailing blanks removed
RECURSIVE lstrip(_)
lstrip(chars) == IF chars # <<>> /\ Head(chars) = " " THEN lstrip(Tail(chars)) ELSE chars
RECURSIVE rstrip(_)
rstrip(chars) ==
    IF chars # <<>> /\ chars[Len(chars)] = " "
    THEN rstrip(SubSeq(chars, 1, Len(chars) - 1)) ELSE chars
strip(chars) == rstrip(lstrip(chars))

\* str.title(): a cased character is upper-cased when it follows an uncased
\* character (or starts the string) and lower-cased otherwise
title(chars) ==
    [k \in DOMAIN chars |->
        IF k > 1 /\ IsCased(chars[k - 1]) THEN ToLower(chars[k]) ELSE ToUpper(chars[k])]

-----------------------------------------------------------------------------
(* Categorical column normalizer: clean_categorical_columns *)

transmission_map ==
    {<<<<"a", "u", "t", "o">>, <<"a", "u", "t", "o", "m", "a", "t", "i", "c">>>>,
     <<<<"a", "t">>, <<"a", "u", "t", "o", "m", "a", "t", "i", "c">>>>,
     <<<<"6", "s", "p">>, <<"a", "u", "t", "o", "m", "a", "t", "i", "c">>>>,
     <<<<"1", "0", "s", "p">>, <<"a", "u", "t", "o", "m", "a", "t", "i", "c">>>>,
     <<<<"m", "a", "n">>, <<"m", "a", "n", "u", "a", "l">>>>,
     <<<<"m", "t">>, <<"m", "a", "n", "u", "a", "l">>>>}

make_map ==
    {<<<<"c", "h", "e", "v", "y">>, <<"C", "h", "e", "v", "r", "o", "l", "e", "t">>>>,
     <<<<"m", "e", "r", "c">>, <<"M", "e", "r", "c", "e", "d", "e", "s", "-", "B", "e", "n", "z">>>>,
     <<<<"v", "w">>, <<"V", "o", "l", "k", "s", "w", "a", "g", "e", "n">>>>}

body_map ==
    {<<<<"g", " ", "s", "e", "d", "a", "n">>, <<"s", "e", "d", "a", "n">>>>,
     <<<<"h", "a", "t", "c", "h", "b", "a", "c", "k">>, <<"s", "e", "d", "a", "n">>>>,
     <<<<"c", "r", "e", "w", " ", "c", "a", "b">>, <<"p", "i", "c", "k", "u", "p">>>>,
     <<<<"r", "e", "g", "u", "l", "a", "r", " ", "c", "a", "b">>, <<"p", "i", "c", "k", "u", "p">>>>,
     <<<<"e", "x", "t", "e", "n", "d", "e", "d", " ", "c", "a", "b">>, <<"p", "i", "c", "k", "u", "p">>>>,
     <<<<"d", "o", "u", "b", "l", "e", " ", "c", "a", "b">>, <<"p", "i", "c", "k", "u", "p">>>>}

Unknown == StrCell(<<"U", "n", "k", "n", "o", "w", "n">>)
Other == StrCell(<<"O", "t", "h", "e", "r">>)

\* Series.str.lower().str.strip() on one value: a value that is not a string
\* becomes missing
StrLowerStrip(c) == IF c.t = "str" THEN StrCell(strip(lower(c.s))) ELSE NaN

\* Series.str.title() on one value
StrTitle(c) == IF c.t = "str" THEN StrCell(title(c.s)) ELSE NaN

\* Series.replace(mapping) on one value: a value equal to a key is replaced
Replace(c, mapping) ==
    IF c.t = "str" /\ \E kv \in mapping : kv[1] = c.s
    THEN StrCell((CHOOSE kv \in mapping : kv[1] = c.s)[2])
    ELSE c

\* the .str accessor raises AttributeError on a column that holds no strings:
\* a numeric dtype
StrAccessorRaises(d, col) == d.dtype[col] \in {"int64", "float64"}

\* the mapping applied to the column (lines 180-188), none for model and trim
MappingOf(col) ==
    CASE col = "transmission" -> transmission_map
      [] col = "make" -> make_map
      [] col = "body" -> body_map
      [] OTHER -> {}

HasMapping(col) == col \in {"transmission", "make", "body"}

\* an entry of the cleaning log: what was done, and the number it reports
LogEntry(a, num) == [a |-> a, num |-> num]

\* df.dropna(subset=[col])
dropna(d, col) == [d EXCEPT !.rows = SelectSeq(d.rows, LAMBDA g : ~isna(g.c[col]))]

\* df[col].value_counts()[v]
ValueCount(d, col, v) ==
    SumSeq([k \in DOMAIN d.rows |-> IF d.rows[k].c[col] = v THEN d.rows[k].n ELSE 0])

\* value_counts[value_counts / len(df) < 0.01].index
RareValues(d, col) ==
    {v \in Range(Column(d, col)) : ~isna(v) /\ 100 * ValueCount(d, col, v) < len(d)}

\* rare_values.any(): the truth value of the strings, false for the empty string
IndexAny(values) == \E v \in values : v.s # <<>>

\* lines 222-224: the except clause; exc says whether the exception leaves the call
CatHandler(d, log, col) ==
    [df |-> d,
     log |-> [log EXCEPT ![col] = @ \o <<LogEntry("error", 0)>>],
     done |-> <<>>,
     exc |-> FALSE]

\* The steps of the try block work on s = [df, log, done]: the table, the
\* entries appended to cleaning_log[col] and the actions performed so far.

\* line 177: lower-case and strip
Standardize(s, col) ==
    [s EXCEPT !.df = SetColumn(s.df, col,
                         [k \in DOMAIN s.df.rows |-> StrLowerStrip(s.df.rows[k].c[col])],
                         "object"),
              !.done = @ \o <<"lower_strip">>]

\* lines 180-188: the synonym mapping of transmission, make and body
ApplyMapping(s, col) ==
    IF HasMapping(col)
    THEN [s EXCEPT !.df = SetColumn(s.df, col,
                              [k \in DOMAIN s.df.rows |->
                                  Replace(s.df.rows[k].c[col], MappingOf(col))],
                              "object"),
                   !.log = @ \o <<LogEntry("mapping", 0)>>,
                   !.done = @ \o <<"mapping">>]
    ELSE s

\* lines 191-192: title-case make, model, trim and body
Capitalize(s, col) ==
    IF col \in {"make", "model", "trim", "body"}
    THEN [s EXCEPT !.df = SetColumn(s.df, col,
                              [k \in DOMAIN s.df.rows |-> StrTitle(s.df.rows[k].c[col])],
                              "object"),
                   !.done = @ \o <<"title">>]
    ELSE s

\* lines 195-204: rows with a missing make or model are dropped, a missing
\* trim, transmission or body becomes 'Unknown'
HandleMissing(s, col) ==
    IF \E k \in DOMAIN s.df.rows : isna(s.df.rows[k].c[col])
    THEN IF col \in {"make", "model"}
         THEN LET dropped == dropna(s.df, col)
              IN [s EXCEPT !.df = dropped,
                           !.log = @ \o <<LogEntry("dropped", len(s.df) - len(dropped))>>,
                           !.done = @ \o <<"dropped">>]
         ELSE [s EXCEPT !.df = SetColumn(s.df, col,
                                   [k \in DOMAIN s.df.rows |->
                                       IF isna(s.df.rows[k].c[col]) THEN Unknown
                                       ELSE s.df.rows[k].c[col]],
                                   "object"),
                        !.log = @ \o <<LogEntry("imputed", 0)>>,
                        !.done = @ \o <<"imputed">>]
    ELSE s

\* lines 207-213: the rare values of trim and body are folded into 'Other'
ReduceCardinality(s, col) ==
    LET rare_values == RareValues(s.df, col)
    IN IF col \in {"trim", "body"} /\ IndexAny(rare_values)
       THEN [s EXCEPT !.df = SetColumn(s.df, col,
                                 [k \in DOMAIN s.df.rows |->
                                     IF s.df.rows[k].c[col] \in rare_values THEN Other
                                     ELSE s.df.rows[k].c[col]],
                                 "object"),
                      !.log = @ \o <<LogEntry("grouped", Cardinality(rare_values))>>,
                      !.done = @ \o <<"grouped">>]
       ELSE s

\* lines 216-217: the column becomes a category column
ToCategory(s, col) ==
    [s EXCEPT !.df.dtype[col] = "category",
              !.log = @ \o <<LogEntry("category", 0)>>,
              !.done = @ \o <<"category">>]

\* lines 171-224: the body of the loop for one column present in the table
CleanColumn(d, log0, col) ==
    LET log == DictSet(log0, col, <<>>)
    IN IF StrAccessorRaises(d, col) THEN CatHandler(d, log, col)
       ELSE LET s == ToCategory(ReduceCardinality(HandleMissing(Capitalize(
                         ApplyMapping(Standardize([df |-> d, log |-> <<>>, done |-> <<>>],
                                                  col), col), col), col), col), col)
            IN [df |-> s.df, log |-> [log EXCEPT ![col] = s.log], done |-> s.done,
                exc |-> FALSE]

\* the driver's argument (line 47)
col_to_clean == <<"make", "model", "trim", "transmission", "body">>

\* the whole call, column by column (lines 138-226)
RECURSIVE CleanFrom(_, _, _, _)
CleanFrom(d, log, cols, k) ==
    IF k > Len(cols) THEN [df |-> d, log |-> log]
    ELSE IF cols[k] \notin d.cols THEN CleanFrom(d, log, cols, k + 1)
    ELSE LET r == CleanColumn(d, log, cols[k])
         IN CleanFrom(r.df, r.log, cols, k + 1)

clean_categorical_columns(d, cols) == CleanFrom(d, EmptyMap, cols, 1)


-----------------------------------------------------------------------------
(* Specification of a call of clean_categorical_columns, followed by a second
   call on the table the first one returned *)

MakeCells == {StrCell(<<"c", "h", "e", "v", "y">>), IntCell(3), NaN}
ModelCells == {StrCell(<<"C", "i", "v", "i", "c">>), NaN}
TrimCells == {StrCell(<<"B", "a", "s", "e">>), StrCell(<<" ">>), NaN}
TransmissionCells == {StrCell(<<"A", "U", "T", "O">>), StrCell(<<" ", "M", "a", "n">>), NaN}
BodyCells == {StrCell(<<"h", "a", "t", "c", "h", "b", "a", "c", "k">>), NaN}

CatCells(col) ==
    CASE col = "make" -> MakeCells
      [] col = "model" -> ModelCells
      [] col = "trim" -> TrimCells
      [] col = "transmission" -> TransmissionCells
      [] OTHER -> BodyCells

\* column lists: one or two distinct names of the five categorical columns
ColumnLists ==
    {<<a>> : a \in Range(col_to_clean)} \cup
    {ab \in Range(col_to_clean) \X Range(col_to_clean) : ab[1] # ab[2]}

\* the dtype pandas gives a column built from the cells: numeric when it holds
\* numbers and no string; a column of missing values only is float64 when read
\* from a file (csvlike) and object when built from Python values
InferDtype(cells, csvlike) ==
    IF cells = <<>> \/ \E k \in DOMAIN cells : cells[k].t = "str" THEN "object"
    ELSE IF \A k \in DOMAIN cells : isna(cells[k])
         THEN (IF csvlike THEN "float64" ELSE "object")
    ELSE IF \E k \in DOMAIN cells : isna(cells[k]) THEN "float64" ELSE "int64"

\* a table of m row groups of sizes w[1..m] with the cells cc[col][k]
CatTable(cs, m, w, cc, csvlike) ==
    [cols |-> cs,
     dtype |-> [x \in cs |-> InferDtype(cc[x], csvlike)],
     rows |-> [k \in 1..m |-> [idx |-> SumSeq(SubSeq(w, 1, k - 1)), n |-> w[k],
                                c |-> [x \in cs |-> cc[x][k]]]]]

\* the sizes of m row groups: large groups of BigN rows, then single rows
GroupSizes(m) ==
    {w \in [1..m -> {1, BigN}] : \A k \in 1..(m - 1) : w[k] >= w[k + 1]}

\* the sequences of m missing values
AllMissing(m) == {[k \in 1..m |-> NaN]}

CatInit ==
    /\ fn = "clean_categorical_columns"
    /\ pc = "call"
    /\ columns \in ColumnLists
    /\ \E absent \in {{}, {columns[1]}}, m \in 0..MaxGroups :
         \E w \in GroupSizes(m),
            c1 \in IF columns[1] \in absent THEN AllMissing(m)
                   ELSE [1..m -> CatCells(columns[1])] :
            \E c2 \in IF Len(columns) = 1 THEN {c1} ELSE [1..m -> CatCells(columns[2])] :
               \E csvlike \in IF m > 0 /\ (c1 \in AllMissing(m) \/ c2 \in AllMissing(m))
                              THEN BOOLEAN ELSE {FALSE} :
                  LET cs == Range(columns) \ absent
                  IN /\ cs = {} => m = 0
                     /\ df = CatTable(cs, m, w,
                                      [x \in cs |-> IF x = columns[1] THEN c1 ELSE c2], csvlike)
    /\ orig = df
    /\ valid_ranges = EmptyMap
    /\ i = 1
    /\ invalid_values = EmptyMap
    /\ cleaning_log = EmptyMap
    /\ performed = EmptyMap
    /\ first = EmptyTable
    /\ defined = {}
    /\ printed = FALSE

\* lines 166-169: a column that is not in the table is skipped with a warning
CatSkip ==
    /\ fn = "clean_categorical_columns"
    /\ pc \in {"call", "again"}
    /\ i <= Len(columns)
    /\ columns[i] \notin df.cols
    /\ i' = i + 1
    /\ UNCHANGED <<fn, pc, df, columns, valid_ranges, invalid_values, cleaning_log,
                   performed, orig, first, defined, printed>>

\* lines 171-224: one iteration of the loop, the except clause included
CatBody ==
    /\ fn = "clean_categorical_columns"
    /\ pc \in {"call", "again"}
    /\ i <= Len(columns)
    /\ columns[i] \in df.cols
    /\ LET r == CleanColumn(df, cleaning_log, columns[i])
       IN /\ df' = r.df
          /\ cleaning_log' = r.log
          /\ performed' = DictSet(performed, columns[i], r.done)
          /\ IF r.exc THEN pc' = "raised" /\ i' = i
                      ELSE pc' = pc /\ i' = i + 1
    /\ UNCHANGED <<fn, columns, valid_ranges, invalid_values, orig, first,
                   defined, printed>>

\* line 226
CatReturn ==
    /\ fn = "clean_categorical_columns"
    /\ pc \in {"call", "again"}
    /\ i > Len(columns)
    /\ pc' = IF pc = "call" THEN "returned" ELSE "returned_again"
    /\ first' = IF pc = "call" THEN df ELSE first
    /\ UNCHANGED <<fn, df, columns, i, valid_ranges, invalid_values, cleaning_log,
                   performed, orig, defined, printed>>

\* the function is called again on the table it returned, with the same list
CatAgain ==
    /\ fn = "clean_categorical_columns"
    /\ pc = "returned"
    /\ pc' = "again"
    /\ i' = 1
    /\ cleaning_log' = EmptyMap
    /\ performed' = EmptyMap
    /\ UNCHANGED <<fn, df, columns, valid_ranges, invalid_values, orig, first,
                   defined, printed>>

CatNext == CatSkip \/ CatBody \/ CatReturn \/ CatAgain

SpecCat == CatInit /\ [][CatNext]_vars


-----------------------------------------------------------------------------
(* Properties of clean_categorical_columns *)

CatReturned == fn = "clean_categorical_columns" /\ pc = "returned"

\* C4: after clean_categorical_columns returns, no row has a missing value in
\* a listed column that is in the table.
C4_NoMissingValues ==
    CatReturned =>
        \A col \in Processed : \A k \in DOMAIN df.rows : ~isna(df.rows[k].c[col])

\* C5: in the returned table every value of trim and body other than "Other"
\* occurs in at least 1% of the rows.
C5_NoRareValues ==
    CatReturned =>
        \A col \in Processed \cap {"trim", "body"} :
            \A v \in Range(Column(df, col)) :
                (~isna(v) /\ v # Other) => 100 * ValueCount(df, col, v) >= len(df)

\* C6: a second call on the returned table returns a table with the same rows
\* and the same value in every cell.
C6_Idempotent ==
    (fn = "clean_categorical_columns" /\ pc = "returned_again") => df.rows = first.rows

\* the actions named by the entries of a column's log, the error entries apart
LoggedActions(log) ==
    LET kept == SelectSeq(log, LAMBDA e : e.a # "error")
    IN [k \in DOMAIN kept |-> kept[k].a]

\* C8: the cleaning log of a processed column holds one entry for every action
\* performed on the column, in the order performed, and no other action entry.
C8_LogMatchesActions ==
    CatReturned =>
        \A col \in DOMAIN cleaning_log : LoggedActions(cleaning_log[col]) = performed[col]

\* the row groups of table d, by the index label of their first row
GroupLabels(d) == {d.rows[k].idx : k \in DOMAIN d.rows}

\* C9: rows are removed exactly where make or model (when processed) is missing,
\* and a missing trim, transmission or body (when processed) becomes "Unknown"
\* (which the rare-value step may then fold into "Other" for trim and body).
C9_MissingValuePolicy ==
    CatReturned =>
        /\ GroupLabels(df) =
              {g.idx : g \in {h \in Range(orig.rows) :
                                 \A col \in Processed \cap {"make", "model"} : ~isna(h.c[col])}}
        /\ \A col \in Processed \cap {"trim", "transmission", "body"} :
              \A g \in Range(df.rows) :
                  isna(CellAt(orig, col, g.idx)) =>
                      \/ g.c[col] = Unknown
                      \/ col \in {"trim", "body"} /\ g.c[col] = Other


-----------------------------------------------------------------------------
(* Specification of single calls of either normalizer *)

CallsInit == IntInit \/ CatInit

CallsNext == IntSkip \/ IntBody \/ IntReturn \/ CatSkip \/ CatBody \/ CatReturn

SpecCalls == CallsInit /\ [][CallsNext]_vars

\* the last entry of a log is the handler's error entry
EndsWithIntError(log) == log # <<>> /\ log[Len(log)].k = "error"
EndsWithCatError(log) == log # <<>> /\ log[Len(log)].a = "error"

\* processing the column of the table passed in raises inside the try block
IntColumnFails(col) == \E g \in Range(orig.rows) : to_numeric(g.c[col]).t = "inf"
CatColumnFails(col) == StrAccessorRaises(orig, col)

\* C7: no exception leaves either normalizer; an absent column is skipped, a
\* column whose processing fails gets an error entry in its log, the other
\* listed columns are processed all the same, and the call is either in its
\* loop, at a column of the list or past the last one, or has returned.
C7_NoExceptionEscapes ==
    /\ pc \in {"call", "returned"}
    /\ pc = "call" => i \in 1..(Len(columns) + 1)
    /\ IntReturned =>
          \A col \in Range(columns) :
              IF col \in orig.cols
              THEN IF IntColumnFails(col)
                   THEN EndsWithIntError(DictGet(invalid_values, col))
                   ELSE /\ df.dtype[col] = "int64"
                        /\ \A e \in Range(DictGet(invalid_values, col)) : e.k = "row"
              ELSE col \notin df.cols /\ col \notin DOMAIN invalid_values
    /\ CatReturned =>
          \A col \in Range(columns) :
              IF col \in orig.cols
              THEN /\ col \in DOMAIN cleaning_log
                   /\ IF CatColumnFails(col)
                      THEN cleaning_log[col] = <<LogEntry("error", 0)>>
                      ELSE /\ df.dtype[col] = "category"
                           /\ cleaning_log[col][Len(cleaning_log[col])] = LogEntry("category", 0)
              ELSE col \notin df.cols /\ col \notin DOMAIN cleaning_log

\* a call has returned after the first listed column failed and the second was
\* processed
C7_Witness ==
    /\ pc = "returned"
    /\ Len(columns) = 2
    /\ Range(columns) \subseteq orig.cols
    /\ \/ /\ fn = "convert_columns_to_int"
          /\ IntColumnFails(columns[1])
          /\ EndsWithIntError(DictGet(invalid_values, columns[1]))
          /\ df.dtype[columns[2]] = "int64"
       \/ /\ fn = "clean_categorical_columns"
          /\ CatColumnFails(columns[1])
          /\ EndsWithCatError(cleaning_log[columns[1]])
          /\ df.dtype[columns[2]] = "category"

-----------------------------------------------------------------------------
(* The driver script: the module's top-level statements, lines 12-64, followed
   by the two function definitions, lines 66 and 124 *)

\* df.dropna(axis=0, how='any')
DropAnyNa(d) ==
    [d EXCEPT !.rows = SelectSeq(d.rows, LAMBDA g : \A x \in d.cols : ~isna(g.c[x]))]

\* the statements after the dataset is loaded, in textual order
DriverLines == <<"dropna", "args", "convert", "clean", "print",
                 "def convert_columns_to_int", "def clean_categorical_columns", "end">>

NextLine(line) == DriverLines[(CHOOSE k \in DOMAIN DriverLines : DriverLines[k] = line) + 1]

\* the state after the statement at `line` is executed in state s; a name that
\* is not bound when it is looked up raises NameError, which ends the script
Execute(line, s) ==
    CASE line = "dropna" ->
            [s EXCEPT !.pc = NextLine(line), !.df = DropAnyNa(s.df)]
      [] line = "args" ->
            [s EXCEPT !.pc = NextLine(line),
                      !.defined = @ \cup {"col_to_int", "valid_ranges"}]
      [] line = "convert" ->
            IF "convert_columns_to_int" \in s.defined
            THEN LET r == convert_columns_to_int(s.df, col_to_int, DriverRanges)
                 IN [s EXCEPT !.pc = NextLine(line), !.df = r.df, !.invalid_values = r.log]
            ELSE [s EXCEPT !.pc = "NameError"]
      [] line = "clean" ->
            IF "clean_categorical_columns" \in s.defined
            THEN LET r == clean_categorical_columns(s.df, col_to_clean)
                 IN [s EXCEPT !.pc = NextLine(line), !.df = r.df, !.cleaning_log = r.log]
            ELSE [s EXCEPT !.pc = "NameError"]
      [] line = "print" ->
            [s EXCEPT !.pc = NextLine(line), !.printed = TRUE]
      [] OTHER ->
            [s EXCEPT !.pc = NextLine(line),
                      !.defined = @ \cup {IF line = "def convert_columns_to_int"
                                          THEN "convert_columns_to_int"
                                          ELSE "clean_categorical_columns"}]

\* datasets: up to MaxRows rows with the columns year and make
Datasets ==
    UNION {{IntTable({"year", "make"}, m, 1, [x \in {"year", "make"} |->
                                                 IF x = "year" THEN yc ELSE mc]) :
               yc \in [1..m -> {IntCell(1995), IntCell(2030), NaN}],
               mc \in [1..m -> MakeCells]} :
           m \in 1..MaxRows}

DriverInit ==
    /\ fn = "<module>"
    /\ pc = "login"
    /\ df = EmptyTable
    /\ orig = EmptyTable
    /\ columns = <<>>
    /\ valid_ranges = EmptyMap
    /\ i = 1
    /\ invalid_values = EmptyMap
    /\ cleaning_log = EmptyMap
    /\ performed = EmptyMap
    /\ first = EmptyTable
    /\ defined = {}
    /\ printed = FALSE

\* line 12: authentication is done by the kagglehub collaborator
DriverLogin ==
    /\ fn = "<module>"
    /\ pc = "login"
    /\ pc' = "load"
    /\ UNCHANGED <<fn, df, columns, i, valid_ranges, invalid_values, cleaning_log,
                   performed, orig, first, defined, printed>>

\* lines 15-21: the dataset is loaded
DriverLoad ==
    /\ fn = "<module>"
    /\ pc = "load"
    /\ df' \in Datasets
    /\ orig' = df'
    /\ pc' = "dropna"
    /\ defined' = defined \cup {"df"}
    /\ UNCHANGED <<fn, columns, i, valid_ranges, invalid_values, cleaning_log,
                   performed, first, printed>>

\* lines 22-24: loading raised; the fallback is an empty table
DriverLoadFails ==
    /\ fn = "<module>"
    /\ pc = "load"
    /\ df' = EmptyTable
    /\ orig' = EmptyTable
    /\ pc' = "dropna"
    /\ defined' = defined \cup {"df"}
    /\ UNCHANGED <<fn, columns, i, valid_ranges, invalid_values, cleaning_log,
                   performed, first, printed>>

\* lines 27-124: the next statement of the script
DriverStatement ==
    /\ fn = "<module>"
    /\ pc \in Range(DriverLines) \ {"end"}
    /\ LET s == Execute(pc, [pc |-> pc, df |-> df, invalid_values |-> invalid_values,
                             cleaning_log |-> cleaning_log, defined |-> defined,
                             printed |-> printed])
       IN /\ pc' = s.pc
          /\ df' = s.df
          /\ invalid_values' = s.invalid_values
          /\ cleaning_log' = s.cleaning_log
          /\ defined' = s.defined
          /\ printed' = s.printed
    /\ UNCHANGED <<fn, columns, i, valid_ranges, performed, orig, first>>

DriverNext == DriverLogin \/ DriverLoad \/ DriverLoadFails \/ DriverStatement

SpecDriver == DriverInit /\ [][DriverNext]_vars

\* C10: the driver always reaches the printing of its results, each normalizer
\* being defined when the driver invokes it.
C10_DriverPrintsResults ==
    fn = "<module>" =>
        /\ pc = "convert" => "convert_columns_to_int" \in defined
        /\ pc = "clean" => "clean_categorical_columns" \in defined
        /\ pc \in {"NameError", "end"} => printed


====
